---- MODULE Spec2Model ----
(***************************************************************************)
(* Model of the airsonic-refix client core:                                *)
(*   - AuthService (src/src/auth/service.ts): the credential store,        *)
(*   - the log-out handler of TopNav.vue,                                  *)
(*   - API (src/unnamed/part_000): the request helpers get/post, the       *)
(*     operations getPlaylist, getRandomSongs, getArtistDetails and the    *)
(*     normalize* functions.                                               *)
(* JavaScript is single threaded: a promise callback runs to completion,   *)
(* so every callback is one action.  The server and the network are the    *)
(* environment: each pending request gets its response by a                *)
(* nondeterministic choice.                                                *)
(***************************************************************************)
EXTENDS Integers, Sequences, FiniteSets, TLC

(***************************************************************************)
(* Bounds                                                                  *)
(***************************************************************************)
\* number of autoLogin / loginWithPassword calls made since the page loaded
MaxCalls == 2
\* how deep the raw artists nest similarArtist
MaxDepth == 2

(***************************************************************************)
(* Values                                                                  *)
(***************************************************************************)
\* what localStorage.getItem returns for a key that is not stored
Null == "<null>"

\* the keys of the four persisted values, and a key owned by another part
\* of the application (clear() is not scoped to the four keys)
SessionKeys == {"server", "username", "salt", "hash"}
StorageKeys == SessionKeys \cup {"other"}

\* values of config.serverUrl: not set, or pinned
ConfigServerUrls == {"", "https://pinned"}

\* the (server, username, password) triples the login form submits
LoginArgs ==
  { <<"https://a", "u1", "p1">>, <<"https://b", "u2", "p2">> }

\* statuses of a ping envelope other than "ok"
FailedStatuses == {"failed"}

EmptyStorage == [k \in StorageKeys |-> Null]

VARIABLES
  configServerUrl,  \* config.serverUrl
  localStorage,     \* window.localStorage
  sessionStorage,   \* window.sessionStorage
  server,           \* AuthService.server
  username,         \* AuthService.username
  salt,             \* AuthService.salt
  hash,             \* AuthService.hash
  authenticated,    \* AuthService.authenticated
  calls,            \* the promises of the autoLogin / loginWithPassword calls
  norm,             \* the last call of a normalize function: fn, input, output
  api               \* the adapter operation in progress: its requests, its promise

authVars == <<configServerUrl, localStorage, sessionStorage, server, username,
              salt, hash, authenticated, calls>>

vars == <<authVars, norm, api>>

(***************************************************************************)
(* AuthService                                                             *)
(***************************************************************************)
\* a || b on strings: the empty string and null are falsy
Or(a, b) == IF a = Null \/ a = "" THEN b ELSE a

\* constructor: the fields read from config and localStorage
RestoredServer(cfg, ls) == Or(cfg, Or(ls["server"], ""))
RestoredUsername(ls) == Or(ls["username"], "")
RestoredSalt(ls) == Or(ls["salt"], "")
RestoredHash(ls) == Or(ls["hash"], "")

\* saveSession: the storage after writing the fields s, u, sa, h
saveSession(ls, cfg, s, u, sa, h) ==
  [k \in StorageKeys |->
     CASE k = "server" -> IF cfg = "" THEN s ELSE ls[k]
       [] k = "username" -> u
       [] k = "salt" -> sa
       [] k = "hash" -> h
       [] OTHER -> ls[k]]

\* a call of autoLogin or loginWithPassword: its arguments to loginWithHash,
\* the number of pings it sent, the promise of loginWithHash (verify, error)
\* and the promise the call returned (state, value)
Call(op, s, u, h, remember, pings, verify, state, value) ==
  [op |-> op, server |-> s, username |-> u, hash |-> h, remember |-> remember,
   pings |-> pings, verify |-> verify, error |-> "", state |-> state,
   value |-> value]

\* the storage states a former session can have left behind
SavedStorages(cfg) ==
  { [k \in StorageKeys |->
       CASE k = "server" -> IF cfg = "" THEN a[1] ELSE Null
         [] k = "username" -> a[2]
         [] k = "salt" -> ""
         [] k = "hash" -> a[3]
         [] OTHER -> o] : a \in LoginArgs, o \in {Null, "x"} }
  \cup { [EmptyStorage EXCEPT !["other"] = o] : o \in {Null, "x"} }

AuthInit ==
  /\ configServerUrl \in ConfigServerUrls
  /\ localStorage \in SavedStorages(configServerUrl)
  /\ sessionStorage \in {Null, "x"}
  /\ server = RestoredServer(configServerUrl, localStorage)
  /\ username = RestoredUsername(localStorage)
  /\ salt = RestoredSalt(localStorage)
  /\ hash = RestoredHash(localStorage)
  /\ authenticated = FALSE
  /\ calls = <<>>

\* loginWithPassword(s, u, password, remember): the password is the hash;
\* loginWithHash sends the ping before it returns
loginWithPassword(s, u, password, remember) ==
  /\ Len(calls) < MaxCalls
  /\ calls' = Append(calls,
       Call("loginWithPassword", s, u, password, remember, 1,
            "pending", "pending", "none"))
  /\ UNCHANGED <<configServerUrl, localStorage, sessionStorage, server,
                 username, salt, hash, authenticated>>

\* autoLogin(): false without a request when server or username is empty,
\* else loginWithHash(this.server, this.username, this.hash, false)
autoLogin ==
  /\ Len(calls) < MaxCalls
  /\ calls' = Append(calls,
       IF server = "" \/ username = ""
       THEN Call("autoLogin", server, username, hash, FALSE, 0,
                 "none", "resolved", "false")
       ELSE Call("autoLogin", server, username, hash, FALSE, 1,
                 "pending", "pending", "none"))
  /\ UNCHANGED <<configServerUrl, localStorage, sessionStorage, server,
                 username, salt, hash, authenticated>>

\* Settled without the catch of autoLogin: a failure rejects every call
SettledRethrows(c, ok, error) ==
  IF ok THEN [c EXCEPT !.verify = "resolved", !.state = "resolved",
                       !.value = IF c.op = "autoLogin" THEN "true" ELSE "undefined"]
  ELSE [c EXCEPT !.verify = "rejected", !.error = error,
                 !.state = "rejected", !.value = error]

\* call c once its loginWithHash promise has resolved (ok) or rejected with
\* error: loginWithPassword returns that promise, autoLogin maps it with
\* .then(() => true).catch(() => false)
Settled(c, ok, error) ==
  LET v == [c EXCEPT !.verify = IF ok THEN "resolved" ELSE "rejected",
                     !.error = IF ok THEN "" ELSE error]
  IN IF c.op = "autoLogin"
     THEN [v EXCEPT !.state = "resolved", !.value = IF ok THEN "true" ELSE "false"]
     ELSE IF ok THEN [v EXCEPT !.state = "resolved", !.value = "undefined"]
          ELSE [v EXCEPT !.state = "rejected", !.value = error]

\* Adopt without the test of remember: every success is persisted
AdoptAlwaysSaves(c) ==
  /\ authenticated' = TRUE
  /\ server' = c.server
  /\ username' = c.username
  /\ hash' = c.hash
  /\ localStorage' = saveSession(localStorage, configServerUrl,
                                 c.server, c.username, salt, c.hash)
  /\ UNCHANGED <<configServerUrl, sessionStorage, salt>>

\* Adopt without the assignment of hash: the token of the store stays
AdoptKeepsHash(c) ==
  /\ authenticated' = TRUE
  /\ server' = c.server
  /\ username' = c.username
  /\ hash' = hash
  /\ localStorage' = IF c.remember
                     THEN saveSession(localStorage, configServerUrl,
                                      c.server, c.username, salt, hash)
                     ELSE localStorage
  /\ UNCHANGED <<configServerUrl, sessionStorage, salt>>

\* the success branch of loginWithHash: the four assignments and saveSession
Adopt(c) ==
  /\ authenticated' = TRUE
  /\ server' = c.server
  /\ username' = c.username
  /\ hash' = c.hash
  /\ localStorage' = IF c.remember
                     THEN saveSession(localStorage, configServerUrl,
                                      c.server, c.username, salt, c.hash)
                     ELSE localStorage
  /\ UNCHANGED <<configServerUrl, sessionStorage, salt>>

\* the rejecting branches of loginWithHash assign nothing
Reject ==
  UNCHANGED <<configServerUrl, localStorage, sessionStorage, server, username,
              salt, hash, authenticated>>

\* the ping of call i answers with status "ok"
PingOk(i) ==
  /\ calls[i].verify = "pending"
  /\ Adopt(calls[i])
  /\ calls' = [calls EXCEPT ![i] = Settled(@, TRUE, "")]

\* PingFailed that also resets the authenticated flag
PingFailedSignsOut(i, status) ==
  /\ calls[i].verify = "pending"
  /\ authenticated' = FALSE
  /\ UNCHANGED <<configServerUrl, localStorage, sessionStorage, server,
                 username, salt, hash>>
  /\ calls' = [calls EXCEPT ![i] = Settled(@, FALSE, status)]

\* the ping of call i answers with an envelope whose status is not "ok":
\* Promise.reject(new Error(status))
PingFailed(i, status) ==
  /\ calls[i].verify = "pending"
  /\ Reject
  /\ calls' = [calls EXCEPT ![i] = Settled(@, FALSE, status)]

\* the ping of call i answers with a body without 'subsonic-response':
\* subsonicResponse.status throws a TypeError inside the callback
PingNoEnvelope(i) ==
  /\ calls[i].verify = "pending"
  /\ Reject
  /\ calls' = [calls EXCEPT ![i] = Settled(@, FALSE, "TypeError")]

\* axios.get rejects: the callback does not run
PingTransportError(i) ==
  /\ calls[i].verify = "pending"
  /\ Reject
  /\ calls' = [calls EXCEPT ![i] = Settled(@, FALSE, "Network Error")]

\* logout that removes the four session keys instead of clearing
logoutSessionKeysOnly ==
  /\ localStorage' = [k \in StorageKeys |->
                        IF k \in SessionKeys THEN Null ELSE localStorage[k]]
  /\ sessionStorage' = Null
  /\ UNCHANGED <<configServerUrl, server, username, salt, hash, authenticated,
                 calls>>

\* AuthService.logout()
logout ==
  /\ localStorage' = EmptyStorage
  /\ sessionStorage' = Null
  /\ UNCHANGED <<configServerUrl, server, username, salt, hash, authenticated,
                 calls>>

\* TopNav.vue logout(): this.$auth.logout(), then this.$router.go(0) reloads
\* the page: the pending promises are gone and a new AuthService is made
TopNavLogout ==
  /\ localStorage' = EmptyStorage
  /\ sessionStorage' = Null
  /\ server' = RestoredServer(configServerUrl, localStorage')
  /\ username' = RestoredUsername(localStorage')
  /\ salt' = RestoredSalt(localStorage')
  /\ hash' = RestoredHash(localStorage')
  /\ authenticated' = FALSE
  /\ calls' = <<>>
  /\ UNCHANGED configServerUrl

AuthNext ==
  \/ \E a \in LoginArgs, r \in BOOLEAN : loginWithPassword(a[1], a[2], a[3], r)
  \/ autoLogin
  \/ \E i \in DOMAIN calls : PingOk(i)
  \/ \E i \in DOMAIN calls, st \in FailedStatuses : PingFailed(i, st)
  \/ \E i \in DOMAIN calls : PingNoEnvelope(i)
  \/ \E i \in DOMAIN calls : PingTransportError(i)
  \/ logout
  \/ TopNavLogout

(***************************************************************************)
(* API: the raw records of the server                                      *)
(***************************************************************************)
\* the object without properties
Empty == [k \in {} |-> k]

TrackFull ==
  [id |-> "t1", title |-> "One", duration |-> 180, starred |-> "2021-03-01",
   track |-> 1, album |-> "Alb", albumId |-> "al1", artist |-> "Art",
   artistId |-> "ar1", coverArt |-> "c1"]
TrackBare == [id |-> "t2", title |-> "Two"]
TrackUnstarred == [id |-> "t3", title |-> "Three", duration |-> 95, starred |-> ""]

RawTracks == {TrackFull, TrackBare, TrackUnstarred}

AlbumFull ==
  [id |-> "al1", name |-> "Alb", artist |-> "Art", artistId |-> "ar1",
   coverArt |-> "c1", year |-> 1999, starred |-> "2021-03-02", genre |-> "Rock",
   song |-> <<TrackFull, TrackBare>>]
AlbumBare == [id |-> "al2", name |-> "Bare"]
AlbumLater == [id |-> "al3", name |-> "Later", year |-> 2005, song |-> <<TrackBare>>]
AlbumSameYear == [id |-> "al4", name |-> "Same", year |-> 1999, starred |-> ""]

RawAlbums == {AlbumFull, AlbumBare, AlbumLater, AlbumSameYear}

\* a biography is a sequence of pieces: text ("text") and anchor elements
\* written on one line ("a")
Biography ==
  << [tag |-> "text", s |-> "Bio "], [tag |-> "a", s |-> "<a href='x'>link text</a>"],
     [tag |-> "text", s |-> " end"] >>

ArtistBare == [id |-> "ar2", name |-> "Bare"]
ArtistFull ==
  [id |-> "ar1", name |-> "Art", albumCount |-> 4, starred |-> "2021-03-03",
   album |-> <<AlbumBare, AlbumFull, AlbumLater, AlbumSameYear>>,
   biography |-> Biography, musicBrainzId |-> "mb1",
   lastFmUrl |-> "https://last.fm/art"]

BaseArtists == {ArtistBare, ArtistFull}

\* the raw artists whose similarArtist nests at most d levels
RECURSIVE RawArtists(_)
RawArtists(d) ==
  IF d = 0 THEN BaseArtists
  ELSE BaseArtists
       \cup { a @@ [similarArtist |-> <<x>>] : a \in BaseArtists, x \in RawArtists(d - 1) }

(***************************************************************************)
(* API: URL builders and normalization                                     *)
(***************************************************************************)
\* window.origin || 'web'
clientName == "web"

\* `${item[k]}`: a missing property prints as undefined
Str(item, k) == IF k \in DOMAIN item THEN item[k] ELSE "undefined"

\* the property out: item[k] of an object literal; a property whose value is
\* undefined is left out of the modelled object
Prop(out, item, k) == IF k \in DOMAIN item THEN [x \in {out} |-> item[k]] ELSE Empty

\* !!item[k] for a string property
Truthy(item, k) == k \in DOMAIN item /\ item[k] # ""

\* item[k] || []
ListOf(item, k) == IF k \in DOMAIN item THEN item[k] ELSE <<>>

getCoverArtUrl(item) ==
  IF ~Truthy(item, "coverArt") THEN Empty
  ELSE [image |-> server \o "/rest/getCoverArt.view" \o "?id=" \o item.coverArt
                    \o "&v=1.9.0" \o "&u=" \o username \o "&s=" \o salt
                    \o "&p=" \o hash \o "&c=" \o clientName \o "&size=300"]

getStreamUrl(id) ==
  server \o "/rest/stream.view" \o "?id=" \o id \o "&format=raw" \o "&v=1.9.0"
    \o "&u=" \o username \o "&s=" \o salt \o "&p=" \o hash \o "&c=" \o clientName

normalizeTrack(item) ==
  Prop("id", item, "id") @@ Prop("title", item, "title")
    @@ Prop("duration", item, "duration")
    @@ [favourite |-> Truthy(item, "starred")]
    @@ Prop("track", item, "track") @@ Prop("album", item, "album")
    @@ Prop("albumId", item, "albumId") @@ Prop("artist", item, "artist")
    @@ Prop("artistId", item, "artistId")
    @@ [url |-> getStreamUrl(Str(item, "id"))]
    @@ getCoverArtUrl(item)

\* arr.map(this.normalizeTrack, this)
normalizeTracks(arr) == [i \in 1..Len(arr) |-> normalizeTrack(arr[i])]

normalizeAlbum(item) ==
  Prop("id", item, "id") @@ Prop("name", item, "name")
    @@ Prop("artist", item, "artist") @@ Prop("artistId", item, "artistId")
    @@ getCoverArtUrl(item)
    @@ [year |-> IF "year" \in DOMAIN item /\ item.year # 0 THEN item.year ELSE 0]
    @@ [favourite |-> Truthy(item, "starred")]
    @@ Prop("genreId", item, "genre")
    @@ [tracks |-> normalizeTracks(ListOf(item, "song"))]

\* arr.map(this.normalizeAlbum, this)
normalizeAlbums(arr) == [i \in 1..Len(arr) |-> normalizeAlbum(arr[i])]

\* albums.sort((a, b) => b.year - a.year): descending by year, stable
RECURSIVE SortByYearDesc(_)
SortByYearDesc(arr) ==
  IF arr = <<>> THEN <<>>
  ELSE LET n == Len(arr)
           sorted == SortByYearDesc(SubSeq(arr, 1, n - 1))
           x == arr[n]
           k == Cardinality({i \in 1..Len(sorted) : sorted[i].year >= x.year})
       IN SubSeq(sorted, 1, k) \o <<x>> \o SubSeq(sorted, k + 1, Len(sorted))

\* biography.replace(/<a[^>]*>.*?<\/a>/gm, ''): . does not match a line break
StripAnchors(bio) ==
  LET Text(piece) == IF piece.tag = "a" THEN "" ELSE piece.s
      RECURSIVE Join(_)
      Join(bs) == IF bs = <<>> THEN "" ELSE Text(Head(bs)) \o Join(Tail(bs))
  IN Join(bio)

\* the properties of a normalized artist other than similarArtist
ArtistProps(item) ==
  Prop("id", item, "id") @@ Prop("name", item, "name")
    @@ [description |-> StripAnchors(ListOf(item, "biography"))]
    @@ [favourite |-> Truthy(item, "starred")]
    @@ Prop("albumCount", item, "albumCount")
    @@ Prop("lastFmUrl", item, "lastFmUrl")
    @@ (IF Truthy(item, "musicBrainzId")
        THEN [musicBrainzUrl |-> "https://musicbrainz.org/artist/" \o item.musicBrainzId]
        ELSE Empty)
    @@ (IF "album" \in DOMAIN item
        THEN [albums |-> SortByYearDesc(normalizeAlbums(item.album))]
        ELSE Empty)

\* normalizeArtist that stops below the similar artists of the top artist
normalizeArtistOneLevel(item) ==
  ArtistProps(item)
    @@ [similarArtist |->
          [i \in 1..Len(ListOf(item, "similarArtist")) |->
             ArtistProps(item.similarArtist[i]) @@ [similarArtist |-> <<>>]]]

RECURSIVE normalizeArtist(_)
normalizeArtist(item) ==
  ArtistProps(item)
    @@ [similarArtist |->
          [i \in 1..Len(ListOf(item, "similarArtist")) |->
             normalizeArtist(item.similarArtist[i])]]

NormInit == norm = [fn |-> "none"]

NormalizeTrack(item) ==
  /\ norm' = [fn |-> "normalizeTrack", input |-> item, output |-> normalizeTrack(item)]
  /\ UNCHANGED authVars

NormalizeAlbum(item) ==
  /\ norm' = [fn |-> "normalizeAlbum", input |-> item, output |-> normalizeAlbum(item)]
  /\ UNCHANGED authVars

NormalizeArtist(item) ==
  /\ norm' = [fn |-> "normalizeArtist", input |-> item, output |-> normalizeArtist(item)]
  /\ UNCHANGED authVars

NormNext ==
  \/ \E item \in RawTracks : NormalizeTrack(item)
  \/ \E item \in RawAlbums : NormalizeAlbum(item)
  \/ \E item \in RawArtists(MaxDepth) : NormalizeArtist(item)

(***************************************************************************)
(* API: requests, responses and operations                                 *)
(***************************************************************************)
\* what the server can answer, as axios sees it: a transport error, or a
\* body, with or without the 'subsonic-response' wrapper
TransportError == [kind |-> "error"]
Body(data) == [kind |-> "data", data |-> data]
Wrapped(subsonicResponse) ==
  Body([k \in {"subsonic-response"} |-> subsonicResponse])

FailureResponses ==
  { TransportError,
    Body([html |-> "<html>"]),
    Wrapped([status |-> "failed"]),
    Wrapped([status |-> "failed",
             error |-> [code |-> 40, message |-> "Wrong username or password"]]) }

ArtistRecords ==
  { [id |-> "ar1", name |-> "Art", albumCount |-> 1, musicBrainzId |-> "mb-old",
     album |-> <<AlbumFull>>],
    [id |-> "ar2", name |-> "Bare"] }

ArtistInfos ==
  { [biography |-> Biography, musicBrainzId |-> "mb1",
     lastFmUrl |-> "https://last.fm/art", similarArtist |-> <<ArtistBare>>],
    Empty }

\* the envelopes with status "ok" the server can send for a path
OkEnvelopes(path) ==
  CASE path = "rest/getRandomSongs.view" ->
         { [status |-> "ok"],
           [status |-> "ok", randomSongs |-> Empty],
           [status |-> "ok", randomSongs |-> [song |-> <<TrackFull, TrackBare>>]] }
    [] path = "rest/getPlaylist.view" ->
         { [status |-> "ok"],
           [status |-> "ok", playlist |-> [id |-> "p1", name |-> ""]],
           [status |-> "ok",
            playlist |-> [id |-> "p1", name |-> "Mix", songCount |-> 1,
                          entry |-> <<TrackFull>>]] }
    [] path = "rest/getArtist.view" ->
         { [status |-> "ok"] }
           \cup { [status |-> "ok", artist |-> a] : a \in ArtistRecords }
    [] path = "rest/getArtistInfo2.view" ->
         { [status |-> "ok"] }
           \cup { [status |-> "ok", artistInfo2 |-> a] : a \in ArtistInfos }
    [] OTHER -> { [status |-> "ok"] }

Responses(path) == FailureResponses \cup { Wrapped(e) : e \in OkEnvelopes(path) }

\* the ids getPlaylist and getArtistDetails are called with
PlaylistIds == {"random", "p1"}
ArtistIds == {"ar1"}
\* the path the request helpers are called with directly
HelperPaths == {"rest/startScan.view"}

Resolved(v) == [sub |-> "resolved", body |-> v]
Rejected(e) == [sub |-> "rejected", error |-> e]

\* the promise of this.get for a response: the callback of http.get(...).then
GetResult(resp) ==
  IF resp.kind = "error" THEN Rejected("Network Error")
  ELSE IF "subsonic-response" \notin DOMAIN resp.data THEN Rejected("TypeError")
  ELSE LET subsonicResponse == resp.data["subsonic-response"] IN
       IF subsonicResponse.status # "ok"
       THEN Rejected(IF "error" \in DOMAIN subsonicResponse
                        /\ Truthy(subsonicResponse.error, "message")
                     THEN subsonicResponse.error.message
                     ELSE subsonicResponse.status)
       ELSE Resolved(subsonicResponse)

\* the promise of this.post for a response
PostResult(resp) ==
  IF resp.kind = "error" THEN Rejected("Network Error")
  ELSE IF "subsonic-response" \notin DOMAIN resp.data THEN Rejected("TypeError")
  ELSE LET subsonicResponse == resp.data["subsonic-response"] IN
       IF subsonicResponse.status # "ok"
       THEN Rejected(subsonicResponse.status)
       ELSE Resolved(subsonicResponse)

\* a request sent with http.get / http.post, its promise still pending
Request(method, path, params) ==
  [method |-> method, path |-> path, params |-> params, sub |-> "pending"]

\* an operation that has sent the requests reqs and awaits them
Operation(name, arg, reqs) ==
  [name |-> name, arg |-> arg, reqs |-> reqs, state |-> "pending"]

ApiInit == api = [name |-> "none", reqs |-> <<>>, state |-> "idle"]

\* get(path)
get(path) ==
  /\ api.state # "pending"
  /\ api' = Operation("get", path, <<Request("get", path, Empty)>>)

\* post(path)
post(path) ==
  /\ api.state # "pending"
  /\ api' = Operation("post", path, <<Request("post", path, Empty)>>)

\* getRandomSongs()
getRandomSongs ==
  /\ api.state # "pending"
  /\ api' = Operation("getRandomSongs", "",
                      <<Request("get", "rest/getRandomSongs.view", [size |-> 200])>>)

\* getPlaylist without the branch for the id "random"
getPlaylistAlwaysFetches(id) ==
  /\ api.state # "pending"
  /\ api' = Operation("getPlaylist", id,
                      <<Request("get", "rest/getPlaylist.view", [id |-> id])>>)

\* getPlaylist(id), up to its first await
getPlaylist(id) ==
  /\ api.state # "pending"
  /\ api' = Operation("getPlaylist", id,
       IF id = "random"
       THEN <<Request("get", "rest/getRandomSongs.view", [size |-> 200])>>
       ELSE <<Request("get", "rest/getPlaylist.view", [id |-> id])>>)

\* getArtistDetails(id), up to await Promise.all([...]): both requests are sent
getArtistDetails(id) ==
  /\ api.state # "pending"
  /\ api' = Operation("getArtistDetails", id,
                      <<Request("get", "rest/getArtist.view", [id |-> id]),
                        Request("get", "rest/getArtistInfo2.view", [id |-> id])>>)

\* (response.randomSongs?.song || []).map(this.normalizeTrack, this)
RandomSongs(response) ==
  normalizeTracks(
    IF "randomSongs" \in DOMAIN response THEN ListOf(response.randomSongs, "song")
    ELSE <<>>)

\* r => r[k], spread into an object literal: undefined spreads to nothing
Payload(r, k) == IF k \in DOMAIN r THEN r[k] ELSE Empty

\* the merge with the spread in the other order: { ...info2, ...info1 }
MergeFirstWins(info1, info2) == info1 @@ info2

\* { ...info1, ...info2 }
Merge(info1, info2) == info2 @@ info1

\* the promise of operation op once request i of reqs is settled: the
\* continuation after the await
Continue(op, reqs, i) ==
  LET r == reqs[i] IN
  CASE op.name \in {"get", "post"} ->
         IF r.sub = "rejected" THEN [state |-> "rejected", error |-> r.error]
         ELSE [state |-> "resolved", value |-> r.body]
    [] op.name = "getRandomSongs" ->
         IF r.sub = "rejected" THEN [state |-> "rejected", error |-> r.error]
         ELSE [state |-> "resolved", value |-> RandomSongs(r.body)]
    [] op.name = "getPlaylist" /\ op.arg = "random" ->
         IF r.sub = "rejected" THEN [state |-> "rejected", error |-> r.error]
         ELSE [state |-> "resolved",
               value |-> [id |-> op.arg, name |-> "Random",
                          tracks |-> RandomSongs(r.body)]]
    [] op.name = "getPlaylist" /\ op.arg # "random" ->
         IF r.sub = "rejected" THEN [state |-> "rejected", error |-> r.error]
         ELSE IF "playlist" \notin DOMAIN r.body
         THEN [state |-> "rejected", error |-> "TypeError"]
         ELSE [state |-> "resolved",
               value |-> [name |-> IF Truthy(r.body.playlist, "name")
                                   THEN r.body.playlist.name ELSE "(Unnamed)",
                          tracks |-> normalizeTracks(
                                       ListOf(r.body.playlist, "entry"))]
                           @@ r.body.playlist]
    [] op.name = "getArtistDetails" ->
         IF r.sub = "rejected" THEN [state |-> "rejected", error |-> r.error]
         ELSE IF \E j \in DOMAIN reqs : reqs[j].sub = "pending"
         THEN [state |-> "pending"]
         ELSE [state |-> "resolved",
               value |-> normalizeArtist(
                           Merge(Payload(reqs[1].body, "artist"),
                                 Payload(reqs[2].body, "artistInfo2")))]

\* the response resp to request i of the operation arrives: the callback of
\* the helper runs, then the continuation of the operation unless its promise
\* is settled already (Promise.all rejected on the first rejection)
Respond(i, resp) ==
  /\ api.reqs[i].sub = "pending"
  /\ LET res == IF api.reqs[i].method = "post" THEN PostResult(resp)
                ELSE GetResult(resp)
         reqs == [api.reqs EXCEPT ![i] = res @@ [response |-> resp] @@ @]
     IN api' = IF api.state = "pending"
               THEN Continue(api, reqs, i) @@ [reqs |-> reqs] @@ api
               ELSE [api EXCEPT !.reqs = reqs]

ApiNext ==
  \/ \E path \in HelperPaths : get(path)
  \/ \E path \in HelperPaths : post(path)
  \/ getRandomSongs
  \/ \E id \in PlaylistIds : getPlaylist(id)
  \/ \E id \in ArtistIds : getArtistDetails(id)
  \/ \E i \in DOMAIN api.reqs : \E resp \in Responses(api.reqs[i].path) :
       Respond(i, resp)

Init == AuthInit /\ NormInit /\ ApiInit

Next ==
  \/ AuthNext /\ UNCHANGED <<norm, api>>
  \/ NormNext /\ UNCHANGED api
  \/ ApiNext /\ UNCHANGED <<authVars, norm>>

Spec == Init /\ [][Next]_vars

\* the credential store alone
SpecAuth == Init /\ [][AuthNext /\ UNCHANGED <<norm, api>>]_vars

\* the normalize functions applied to the raw records
SpecNorm == Init /\ [][NormNext /\ UNCHANGED api]_vars

\* the adapter operations over a store that does not change
SpecApi == Init /\ [][ApiNext /\ UNCHANGED <<authVars, norm>>]_vars

(***************************************************************************)
(* Properties of the credential store                                      *)
(***************************************************************************)
\* the verify of call i ends in this step
VerifyResolves(i) ==
  /\ i \in DOMAIN calls /\ i \in DOMAIN calls'
  /\ calls[i].verify = "pending" /\ calls'[i].verify = "resolved"

VerifyRejects(i) ==
  /\ i \in DOMAIN calls /\ i \in DOMAIN calls'
  /\ calls[i].verify = "pending" /\ calls'[i].verify = "rejected"

NoSessionValue(ls) == \A k \in SessionKeys : ls[k] = Null

\* C1: a verify whose ping answers with a status other than "ok" rejects
\* with that status and changes neither the fields of the store nor any
\* persisted value, whatever the state before it.
C1_FailedVerifyLeavesStore ==
  [][\A i \in DOMAIN calls :
       (VerifyRejects(i) /\ calls'[i].error \in FailedStatuses)
         => UNCHANGED <<server, username, salt, hash, authenticated,
                        localStorage, sessionStorage>>]_vars

\* C1 witness: a verify failed with status "failed" in a store that an
\* earlier remembered verify had authenticated
C1_Witness ==
  /\ Len(calls) = 2
  /\ calls[1].verify = "resolved" /\ calls[1].remember
  /\ calls[2].verify = "rejected" /\ calls[2].error = "failed"
  /\ authenticated
  /\ username = calls[1].username
  /\ localStorage["username"] = calls[1].username

\* C2: a successful verify with remember = false adopts its arguments and
\* sets the flag but leaves localStorage alone, every autoLogin verifies with
\* remember = false, a failed verify leaves localStorage alone, and a step
\* that stores a session value is a successful verify with remember = true.
C2_PersistOnlyWhenRemembered ==
  [][/\ \A i \in DOMAIN calls :
          /\ (VerifyResolves(i) /\ ~calls[i].remember)
               => /\ server' = calls[i].server
                  /\ username' = calls[i].username
                  /\ hash' = calls[i].hash
                  /\ authenticated'
                  /\ localStorage' = localStorage
          /\ VerifyRejects(i) => localStorage' = localStorage
     /\ \A i \in DOMAIN calls' : calls'[i].op = "autoLogin" => ~calls'[i].remember
     /\ (\E k \in SessionKeys :
            localStorage'[k] # localStorage[k] /\ localStorage'[k] # Null)
          => \E i \in DOMAIN calls : VerifyResolves(i) /\ calls[i].remember
    ]_vars

\* C2 witness: a successful verify with remember = false: the store is
\* authenticated in memory, nothing is persisted and nothing was cleared
C2_Witness ==
  /\ \E i \in DOMAIN calls :
       /\ calls[i].verify = "resolved" /\ ~calls[i].remember
       /\ server = calls[i].server /\ username = calls[i].username
  /\ authenticated
  /\ NoSessionValue(localStorage)
  /\ localStorage["other"] = "x"

\* C3: autoLogin never rejects and yields a boolean: false without a ping
\* when the stored server or username is empty, else one ping with the
\* stored credentials and remember = false, true when that verify succeeds
\* and false when it fails in any way.
C3_AutoLoginBoolean ==
  [][/\ \A i \in DOMAIN calls' :
          LET c == calls'[i] IN
          c.op = "autoLogin" =>
            /\ c.state # "rejected"
            /\ c.state = "resolved" => c.value \in {"true", "false"}
            /\ ~c.remember
            /\ c.pings = (IF c.server = "" \/ c.username = "" THEN 0 ELSE 1)
            /\ c.pings = 0 => (c.verify = "none" /\ c.state = "resolved"
                               /\ c.value = "false")
            /\ c.pings = 1 => c.verify # "none"
            /\ c.verify = "pending" => c.state = "pending"
            /\ c.verify = "resolved" => (c.state = "resolved" /\ c.value = "true")
            /\ c.verify = "rejected" => (c.state = "resolved" /\ c.value = "false")
     /\ (Len(calls') = Len(calls) + 1 /\ calls'[Len(calls')].op = "autoLogin")
          => LET c == calls'[Len(calls')] IN
             /\ c.server = server /\ c.username = username /\ c.hash = hash
    ]_vars

\* C3 witness: an autoLogin whose ping came back without an envelope has
\* resolved to false
C3_Witness ==
  /\ Len(calls) = 2
  /\ calls[1].op = "autoLogin" /\ calls[1].verify = "rejected"
  /\ calls[1].error = "TypeError"
  /\ calls[1].state = "resolved" /\ calls[1].value = "false"

\* an autoLogin without stored server or username resolved to false and
\* sent no ping
C3_WitnessNoPing ==
  \E i \in DOMAIN calls :
    calls[i].op = "autoLogin" /\ calls[i].pings = 0 /\ calls[i].value = "false"

\* C4 as claimed: after logout no session value is persisted, the store
\* does not hold the credentials adopted at login and is not authenticated.
C4_LogoutClearsStore ==
  [][(logout \/ TopNavLogout)
       => /\ NoSessionValue(localStorage')
          /\ ~authenticated'
          /\ authenticated =>
               <<server', username', hash'>> # <<server, username, hash>>
    ]_vars

\* C4 amended: AuthService.logout() clears localStorage and sessionStorage
\* and leaves server, username, salt, hash and the authenticated flag as they
\* were; the log-out handler of TopNav, which reloads the page after it,
\* leaves nothing persisted, username, salt and hash empty, server the
\* configured server URL or empty, and the flag false; the flag then turns
\* true only when a verify succeeds.
C4_LogoutClearsStorage ==
  [][/\ logout
          => /\ localStorage' = EmptyStorage /\ sessionStorage' = Null
             /\ UNCHANGED <<server, username, salt, hash, authenticated>>
     /\ TopNavLogout
          => /\ localStorage' = EmptyStorage /\ sessionStorage' = Null
             /\ server' = configServerUrl
             /\ username' = "" /\ salt' = "" /\ hash' = ""
             /\ ~authenticated'
     /\ (~authenticated /\ authenticated')
          => \E i \in DOMAIN calls : VerifyResolves(i)
    ]_vars

\* C4 witness: logout() has emptied the storage of a store that is still
\* authenticated and still holds the credentials of its remembered login
C4_Witness ==
  /\ authenticated
  /\ localStorage = EmptyStorage /\ sessionStorage = Null
  /\ \E i \in DOMAIN calls :
       /\ calls[i].verify = "resolved" /\ calls[i].remember
       /\ <<server, username, hash>>
            = <<calls[i].server, calls[i].username, calls[i].hash>>

\* C10: the triple (server, username, hash) changes only as a whole: a step
\* leaves it alone, or is the arrival of an "ok" ping and makes it the
\* argument triple of that one call (so the response that arrives last
\* wins), or is a page load and makes it the restored triple; an
\* authenticated store holds the argument triple of a call that succeeded.
C10_AtomicAdoption ==
  [][/\ \/ UNCHANGED <<server, username, hash>>
        \/ \E i \in DOMAIN calls :
             /\ VerifyResolves(i)
             /\ <<server', username', hash'>>
                  = <<calls[i].server, calls[i].username, calls[i].hash>>
        \/ /\ calls' = <<>>
           /\ server' = RestoredServer(configServerUrl, localStorage')
           /\ username' = RestoredUsername(localStorage')
           /\ hash' = RestoredHash(localStorage')
     /\ \A i \in DOMAIN calls :
          VerifyResolves(i)
            => <<server', username', hash'>>
                 = <<calls[i].server, calls[i].username, calls[i].hash>>
     /\ authenticated'
          => \E i \in DOMAIN calls' :
               /\ calls'[i].verify = "resolved"
               /\ <<server', username', hash'>>
                    = <<calls'[i].server, calls'[i].username, calls'[i].hash>>
    ]_vars

\* C10 witness: two overlapping verifies with different arguments both
\* succeeded and the store holds the triple of the call made first, whose
\* response arrived last
C10_Witness ==
  /\ Len(calls) = 2
  /\ calls[1].verify = "resolved" /\ calls[2].verify = "resolved"
  /\ calls[1].server # calls[2].server
  /\ <<server, username, hash>>
       = <<calls[1].server, calls[1].username, calls[1].hash>>

(***************************************************************************)
(* Properties of the adapter                                               *)
(***************************************************************************)
HasWrapper(resp) == resp.kind = "data" /\ "subsonic-response" \in DOMAIN resp.data

\* C5 as claimed: get and post resolve only on status "ok"; on another
\* status they reject with the server's error message when there is one and
\* with the status otherwise; a body without the wrapper rejects.
C5_EnvelopeContract ==
  (api.name \in {"get", "post"} /\ api.state # "pending") =>
    LET resp == api.reqs[1].response IN
    /\ api.state = "resolved"
         => (HasWrapper(resp) /\ resp.data["subsonic-response"].status = "ok")
    /\ (resp.kind = "data" /\ ~HasWrapper(resp)) => api.state = "rejected"
    /\ (HasWrapper(resp) /\ resp.data["subsonic-response"].status # "ok")
         => LET e == resp.data["subsonic-response"] IN
            /\ api.state = "rejected"
            /\ api.error = IF "error" \in DOMAIN e THEN e.error.message ELSE e.status

\* C6: getPlaylist("random") sends one request, rest/getRandomSongs.view
\* with size 200, and none for rest/getPlaylist.view, and resolves to id
\* "random", name "Random" and the normalized tracks of the response; for
\* another id it sends one request, rest/getPlaylist.view with that id.
C6_RandomPlaylist ==
  api.name = "getPlaylist" =>
    /\ Len(api.reqs) = 1
    /\ api.reqs[1].method = "get"
    /\ IF api.arg = "random"
       THEN /\ api.reqs[1].path = "rest/getRandomSongs.view"
            /\ api.reqs[1].params = [size |-> 200]
            /\ api.reqs[1].sub = "pending" => api.state = "pending"
            /\ api.reqs[1].sub = "rejected" => api.state = "rejected"
            /\ api.reqs[1].sub = "resolved" =>
                 LET e == api.reqs[1].response.data["subsonic-response"]
                     songs == IF "randomSongs" \in DOMAIN e
                                 /\ "song" \in DOMAIN e.randomSongs
                              THEN e.randomSongs.song ELSE <<>>
                 IN /\ api.state = "resolved"
                    /\ api.value = [id |-> "random", name |-> "Random",
                                    tracks |-> [i \in 1..Len(songs) |->
                                                  normalizeTrack(songs[i])]]
       ELSE /\ api.reqs[1].path = "rest/getPlaylist.view"
            /\ api.reqs[1].params = [id |-> api.arg]

\* C6 witness: getPlaylist("random") has resolved with two tracks
C6_Witness ==
  /\ api.name = "getPlaylist" /\ api.arg = "random" /\ api.state = "resolved"
  /\ Len(api.value.tracks) = 2
  /\ api.value.name = "Random"

\* C7: getArtistDetails sends both requests before it awaits either; it
\* resolves only when both have succeeded, with the normalized merge in
\* which the properties of artistInfo2 win; it rejects as soon as either
\* has failed, whichever response comes first.
C7_ArtistDetailsJoin ==
  api.name = "getArtistDetails" =>
    /\ Len(api.reqs) = 2
    /\ api.reqs[1].path = "rest/getArtist.view"
    /\ api.reqs[2].path = "rest/getArtistInfo2.view"
    /\ \A i \in 1..2 : api.reqs[i].params = [id |-> api.arg]
    /\ api.state = "rejected" <=> \E i \in 1..2 : api.reqs[i].sub = "rejected"
    /\ api.state = "resolved" <=> \A i \in 1..2 : api.reqs[i].sub = "resolved"
    /\ api.state = "resolved" =>
         LET r1 == api.reqs[1].response.data["subsonic-response"]
             r2 == api.reqs[2].response.data["subsonic-response"]
             info1 == IF "artist" \in DOMAIN r1 THEN r1.artist ELSE Empty
             info2 == IF "artistInfo2" \in DOMAIN r2 THEN r2.artistInfo2 ELSE Empty
             merged == [k \in DOMAIN info1 \cup DOMAIN info2 |->
                          IF k \in DOMAIN info2 THEN info2[k] ELSE info1[k]]
         IN api.value = normalizeArtist(merged)

\* C7 witness: both requests succeeded, both records carry musicBrainzId and
\* the result has the one of artistInfo2
C7_Witness ==
  /\ api.name = "getArtistDetails" /\ api.state = "resolved"
  /\ "artist" \in DOMAIN api.reqs[1].body
  /\ "musicBrainzId" \in DOMAIN api.reqs[1].body.artist
  /\ "artistInfo2" \in DOMAIN api.reqs[2].body
  /\ "musicBrainzId" \in DOMAIN api.reqs[2].body.artistInfo2
  /\ api.value.musicBrainzUrl = "https://musicbrainz.org/artist/mb1"

\* the second request failed while the first is pending: the call has rejected
C7_WitnessFailFast ==
  /\ api.name = "getArtistDetails" /\ api.state = "rejected"
  /\ api.reqs[1].sub = "pending" /\ api.reqs[2].sub = "rejected"

(***************************************************************************)
(* Properties of the normalization                                         *)
(***************************************************************************)
\* C8 as claimed: a track without duration gets duration 0, an album
\* without year gets year 0, and favourite is true exactly when the raw
\* record has a truthy starred.
C8_DefaultsMissingFields ==
  /\ norm.fn = "normalizeTrack" =>
       /\ "duration" \notin DOMAIN norm.input =>
            ("duration" \in DOMAIN norm.output /\ norm.output.duration = 0)
       /\ norm.output.favourite
            = ("starred" \in DOMAIN norm.input /\ norm.input.starred # "")
  /\ norm.fn = "normalizeAlbum" =>
       /\ "year" \notin DOMAIN norm.input =>
            ("year" \in DOMAIN norm.output /\ norm.output.year = 0)
       /\ norm.output.favourite
            = ("starred" \in DOMAIN norm.input /\ norm.input.starred # "")
  /\ norm.fn = "normalizeArtist" =>
       norm.output.favourite
         = ("starred" \in DOMAIN norm.input /\ norm.input.starred # "")

\* how many levels of similarArtist an artist record nests
RECURSIVE Depth(_)
Depth(a) ==
  IF "similarArtist" \notin DOMAIN a \/ a.similarArtist = <<>> THEN 0
  ELSE 1 + CHOOSE m \in {Depth(a.similarArtist[i]) : i \in DOMAIN a.similarArtist} :
             \A i \in DOMAIN a.similarArtist : Depth(a.similarArtist[i]) <= m

\* C9 as claimed: the similar artists of a normalized artist have no similar
\* artists of their own, however deep the raw record nests.
C9_SimilarArtistOneLevel ==
  norm.fn = "normalizeArtist" => Depth(norm.output) <= 1

\* C9 amended: normalizeArtist normalizes similarArtist at every level: the
\* result has one similar artist per raw similar artist and nests
\* similarArtist as deep as the raw record.
C9_SimilarArtistEveryLevel ==
  norm.fn = "normalizeArtist" =>
    /\ Depth(norm.output) = Depth(norm.input)
    /\ Len(norm.output.similarArtist)
         = (IF "similarArtist" \in DOMAIN norm.input
            THEN Len(norm.input.similarArtist) ELSE 0)

\* C9 witness: a raw artist nesting similarArtist two levels was normalized
\* and the result nests two levels
C9_Witness ==
  /\ norm.fn = "normalizeArtist"
  /\ Depth(norm.input) = 2
  /\ norm.output.similarArtist[1].similarArtist # <<>>

====
